---- MODULE Spec2Model ----
(***************************************************************************)
(* Model of the SOL perps trading bot: the intent mapper, the exit         *)
(* decision, the order path of buildAndSendPerpsTx, the tick loop and the  *)
(* indicator engine of fetchBtcIndicators.                                 *)
(*                                                                         *)
(* Units.  Confidence is counted in tenths of a point (55 is 550), so that *)
(* 54.9 is a value of the model.  A price the venue reports is a decimal,  *)
(* counted in thousandths of a USD; the exit decision computes with the    *)
(* double of that decimal.  A position's sizeUsd is whole USD.  Balances   *)
(* and order sizes are micro-USD (the unit of sizeUsdDelta and of the USDC *)
(* token amount) and lamports; the balances of the model are multiples of  *)
(* 10, for which the integer arithmetic below is exact.  Times are         *)
(* milliseconds on a clock whose origin is shifted so that the values fit  *)
(* TLC's integers; only differences of times are used.                     *)
(* An optional value (number | null) is a set: {} is null, {v} is v.       *)
(* The numbers of the exit decision and of the indicator engine are        *)
(* doubles: every operation on them rounds as IEEE 754 binary64 does.      *)
(***************************************************************************)
EXTENDS Integers, Sequences, FiniteSets, TLC

VARIABLES
    pc,            \* where the loop / the tick in flight is waiting
    now,           \* Date.now()
    ticks,         \* ticks started so far
    venuePos,      \* the venue's open positions: at most one per side
    tickPos,       \* the venue's positions when the tick in flight started
    parsed,        \* what JSON.parse gave readLatestPrediction: {} before
    pred,          \* the PredictionResult of the tick: {} or {pred}
    intent,        \* the TradeIntent of the tick: {} or {intent}
    posResp,       \* {} or {the answer to GET /positions, without its list}
    openPositions, \* the filtered list fetchOpenPerpsPositions returned
    exitDecision,  \* {} or {what evaluateExitDecision returned}
    balance,       \* balances read on the open path
    payload,       \* {} or {the payload handed to submitPerpsApiTx}
    requests,      \* the payloads POSTed to the venue by the tick in flight
    apiResp,       \* {} or {resp.data of the POST}
    txSig,         \* what buildAndSendPerpsTx returned: {} is null
    outcome,       \* how the tick in flight ended: "running" | ...
    inFlight,      \* the ticks that have started and not yet settled
    tickEnded,     \* {} or {the time at which the last tick settled}
    spot,          \* {} or {the market_data of GET /coins/bitcoin}
    chart,         \* {} or {the answer to GET /coins/bitcoin/market_chart}
    derived        \* {} or {what fetchBtcIndicators returned or threw}

vars == <<pc, now, ticks, venuePos, tickPos, parsed, pred, intent, posResp,
          openPositions, exitDecision, balance, payload, requests, apiResp,
          txSig, outcome, inFlight, tickEnded, spot, chart, derived>>

\* the variables of the indicator engine
indVars == <<spot, chart, derived>>

Null == {}
Some(v) == {v}
The(s) == CHOOSE x \in s : TRUE
Max(a, b) == IF a >= b THEN a ELSE b
Min(a, b) == IF a <= b THEN a ELSE b

\* JavaScript truthiness of a number | null: null and 0 are falsy.
Truthy(s) == s # Null /\ The(s) # 0

(***************************************************************************)
(* Binary64.  Every JavaScript number of the program is an IEEE 754        *)
(* double, and every arithmetic operation rounds its exact result to 53    *)
(* significant bits, to nearest, ties to even.  A natural number of any    *)
(* size is a little-endian sequence of limbs below LIMB without a leading  *)
(* zero limb.  A double is [neg, m, e], the value (-1)^neg * m * 2^e with  *)
(* 2^52 <= m < 2^53, or zero (m = <<>>).  Infinities, NaN, subnormal       *)
(* results and the sign of zero are outside the values modelled.           *)
(***************************************************************************)
LIMB == 2^15
LIMB_BITS == 15
SIGNIFICAND_BITS == 53

RECURSIVE NatOf(_)
NatOf(n) == IF n = 0 THEN <<>> ELSE <<n % LIMB>> \o NatOf(n \div LIMB)

RECURSIVE BTrim(_)
BTrim(a) ==
    IF Len(a) > 0 /\ a[Len(a)] = 0 THEN BTrim(SubSeq(a, 1, Len(a) - 1)) ELSE a

limbAt(a, i) == IF i <= Len(a) THEN a[i] ELSE 0

RECURSIVE addFrom(_, _, _, _, _)
addFrom(a, b, i, carry, acc) ==
    IF i > Max(Len(a), Len(b))
    THEN IF carry = 0 THEN acc ELSE Append(acc, carry)
    ELSE LET t == limbAt(a, i) + limbAt(b, i) + carry
         IN  addFrom(a, b, i + 1, t \div LIMB, Append(acc, t % LIMB))

BAdd(a, b) == addFrom(a, b, 1, 0, <<>>)

RECURSIVE subFrom(_, _, _, _, _)
subFrom(a, b, i, borrow, acc) ==
    IF i > Len(a) THEN BTrim(acc)
    ELSE LET t == limbAt(a, i) - limbAt(b, i) - borrow
         IN  subFrom(a, b, i + 1, IF t < 0 THEN 1 ELSE 0,
                     Append(acc, IF t < 0 THEN t + LIMB ELSE t))

\* a - b for a >= b
BSub(a, b) == subFrom(a, b, 1, 0, <<>>)

BLess(a, b) ==
    IF Len(a) # Len(b) THEN Len(a) < Len(b)
    ELSE \E i \in 1..Len(a) :
            a[i] < b[i] /\ \A j \in (i + 1)..Len(a) : a[j] = b[j]

RECURSIVE mulSmallFrom(_, _, _, _, _)
mulSmallFrom(a, s, i, carry, acc) ==
    IF i > Len(a)
    THEN BTrim(IF carry = 0 THEN acc ELSE Append(acc, carry))
    ELSE LET t == a[i] * s + carry
         IN  mulSmallFrom(a, s, i + 1, t \div LIMB, Append(acc, t % LIMB))

\* a * s for 0 <= s < LIMB
BMulSmall(a, s) == mulSmallFrom(a, s, 1, 0, <<>>)

RECURSIVE divSmallFrom(_, _, _, _, _)
divSmallFrom(a, s, i, rem, acc) ==
    IF i = 0 THEN [q |-> BTrim(acc), r |-> rem]
    ELSE LET t == rem * LIMB + a[i]
         IN  divSmallFrom(a, s, i - 1, t % s, <<t \div s>> \o acc)

\* quotient and remainder of a / s for 1 <= s < LIMB
BDivSmall(a, s) == divSmallFrom(a, s, Len(a), 0, <<>>)

limbShift(a, n) == IF a = <<>> THEN <<>> ELSE [i \in 1..n |-> 0] \o a

RECURSIVE mulFrom(_, _, _, _)
mulFrom(a, b, i, acc) ==
    IF i > Len(b) \/ Len(acc) < 0 THEN acc
    ELSE mulFrom(a, b, i + 1, BAdd(acc, limbShift(BMulSmall(a, b[i]), i - 1)))

BMul(a, b) == mulFrom(a, b, 1, <<>>)

\* the number of bits of a
BBits(a) ==
    IF a = <<>> THEN 0
    ELSE LIMB_BITS * (Len(a) - 1)
            + (CHOOSE k \in 1..LIMB_BITS : 2^(k - 1) <= a[Len(a)] /\ a[Len(a)] < 2^k)

\* a * 2^n and floor(a / 2^n)
BShl(a, n) == limbShift(BMulSmall(a, 2^(n % LIMB_BITS)), n \div LIMB_BITS)
BShr(a, n) ==
    BDivSmall(SubSeq(a, n \div LIMB_BITS + 1, Len(a)), 2^(n % LIMB_BITS)).q

\* one digit of a long division: the quotient and remainder of r / b for
\* r < b * LIMB and a divisor b of 4 limbs whose top limb is at least
\* LIMB / 2, from an estimate that is never too large
RECURSIVE digitFrom(_, _, _)
digitFrom(r, b, d) ==
    IF BLess(r, b) THEN [q |-> d, r |-> r]
    ELSE digitFrom(BSub(r, b), b, d + 1)

divDigit(r, b) ==
    LET est == (limbAt(r, 5) * LIMB + limbAt(r, 4)) \div (b[4] + 1)
    IN  digitFrom(BSub(r, BMulSmall(b, est)), b, est)

\* the digits of a / b after the first, most significant first, and the
\* remainder left after the last
RECURSIVE divFrom(_, _, _, _)
divFrom(r, b, n, acc) ==
    IF n = 0 THEN [q |-> BTrim(acc), r |-> r]
    ELSE LET d == divDigit(limbShift(r, 1), b)
         IN  divFrom(d.r, b, n - 1, <<d.q>> \o acc)

DZero == [neg |-> FALSE, m |-> <<>>, e |-> 0]

\* r of at most 54 bits brought back to 53: a carry out of the rounding
\* leaves 2^53, which halves exactly
carried(neg, r, e) ==
    IF BBits(r) > SIGNIFICAND_BITS
    THEN [neg |-> neg, m |-> BShr(r, 1), e |-> e + 1]
    ELSE [neg |-> neg, m |-> r, e |-> e]

\* q and the bits rem cut off below it: up when rem is above half, or is
\* half and q is odd
roundHalfEven(neg, q, rem, half, e) ==
    carried(neg,
            IF BLess(half, rem) \/ (rem = half /\ q[1] % 2 = 1)
            THEN BAdd(q, NatOf(1)) ELSE q,
            e)

\* x of 53 + s bits, whose leading 53 bits are q
roundCut(neg, x, q, e, s) ==
    roundHalfEven(neg, q, BSub(x, BShl(q, s)), BShl(NatOf(1), s - 1), e + s)

\* x # 0 of 53 + s bits
roundBits(neg, x, e, s) ==
    IF s <= 0
    THEN [neg |-> neg, m |-> BShl(x, 0 - s), e |-> e + s]
    ELSE roundCut(neg, x, BShr(x, s), e, s)

\* the double nearest to (-1)^neg * x * 2^e: round to nearest, ties to even
roundToDouble(neg, x, e) ==
    IF x = <<>> THEN DZero
    ELSE roundBits(neg, x, e, BBits(x) - SIGNIFICAND_BITS)

\* the double of an integer
DoubleOf(n) == roundToDouble(n < 0, NatOf(IF n < 0 THEN -n ELSE n), 0)

DNeg(a) == IF a.m = <<>> THEN a ELSE [a EXCEPT !.neg = ~a.neg]
DAbs(a) == [a EXCEPT !.neg = FALSE]

\* a * b
DMul(a, b) ==
    IF a.m = <<>> \/ b.m = <<>> THEN DZero
    ELSE roundToDouble(a.neg # b.neg, BMul(a.m, b.m), a.e + b.e)

\* x * 2^e with the sign aneg plus y * 2^e with the sign bneg
addAligned(aneg, x, bneg, y, e) ==
    roundToDouble(IF aneg # bneg /\ BLess(x, y) THEN bneg ELSE aneg,
                  IF aneg = bneg THEN BAdd(x, y)
                  ELSE IF BLess(x, y) THEN BSub(y, x)
                  ELSE BSub(x, y),
                  e)

\* a + b
DAdd(a, b) ==
    IF a.m = <<>> THEN b
    ELSE IF b.m = <<>> THEN a
    ELSE addAligned(a.neg, BShl(a.m, a.e - Min(a.e, b.e)),
                    b.neg, BShl(b.m, b.e - Min(a.e, b.e)), Min(a.e, b.e))

\* a - b
DSub(a, b) == DAdd(a, DNeg(b))

\* the first digit and the digits after it, with one more bit that tells
\* whether a remainder is left
roundQuotient(neg, first, rest, e) ==
    roundToDouble(neg,
                  BAdd(BMulSmall(BAdd(limbShift(NatOf(first), 4), rest.q), 2),
                       IF rest.r = <<>> THEN <<>> ELSE NatOf(1)),
                  e)

\* x / y for x and y of 60 bits: the quotient to 61 bits
divAligned(neg, x, y, e) ==
    roundQuotient(neg, IF BLess(x, y) THEN 0 ELSE 1,
                  divFrom(IF BLess(x, y) THEN x ELSE BSub(x, y), y, 4, <<>>), e)

\* a / b for b # 0
DDiv(a, b) ==
    IF a.m = <<>> THEN DZero
    ELSE divAligned(a.neg # b.neg, BShl(a.m, 7), BShl(b.m, 7), a.e - b.e - 61)

\* the double of the decimal n / d, as a numeric literal or Number(text)
\* gives it
DecimalOf(n, d) == DDiv(DoubleOf(n), DoubleOf(d))

\* a < b
DLess(a, b) ==
    LET below(x, y) ==
            IF y.m = <<>> THEN FALSE
            ELSE IF x.m = <<>> THEN TRUE
            ELSE x.e < y.e \/ (x.e = y.e /\ BLess(x.m, y.m))
    IN  IF a.neg /\ ~b.neg THEN TRUE
        ELSE IF ~a.neg /\ b.neg THEN FALSE
        ELSE IF a.neg THEN below(b, a)
        ELSE below(a, b)

DLeq(a, b) == ~DLess(b, a)

(***************************************************************************)
(* Policy constants                                                        *)
(***************************************************************************)
\* the doubles of the literals 0.035 and -0.035
TP_THRESHOLD_PCT == DecimalOf(35, 1000)
SL_THRESHOLD_PCT == DNeg(DecimalOf(35, 1000))
MAX_POSITION_AGE_MS == 24 * 60 * 60 * 1000
INTERVAL_MS == 10 * 60 * 1000
\* confidence threshold 55, in tenths
MIN_CONFIDENCE == 550
\* riskFraction 0.3 as a fraction
RISK_FRACTION == [num |-> 3, den |-> 10]
NO_RISK == [num |-> 0, den |-> 10]

(***************************************************************************)
(* Intent mapper                                                           *)
(***************************************************************************)
Directions == {"LONG", "SHORT"}
Actions == {"OPEN_LONG", "OPEN_SHORT", "CLOSE_POSITION", "DO_NOTHING"}

mapPredictionToTradeIntent_Strict(p) ==
    IF p.confidence <= MIN_CONFIDENCE
    THEN [action |-> "DO_NOTHING", riskFraction |-> NO_RISK]
    ELSE IF p.direction = "LONG"
    THEN [action |-> "OPEN_LONG", riskFraction |-> RISK_FRACTION]
    ELSE IF p.direction = "SHORT"
    THEN [action |-> "OPEN_SHORT", riskFraction |-> RISK_FRACTION]
    ELSE [action |-> "DO_NOTHING", riskFraction |-> NO_RISK]

mapPredictionToTradeIntent_TwoWay(p) ==
    IF p.confidence < MIN_CONFIDENCE
    THEN [action |-> "DO_NOTHING", riskFraction |-> NO_RISK]
    ELSE IF p.direction = "LONG"
    THEN [action |-> "OPEN_LONG", riskFraction |-> RISK_FRACTION]
    ELSE [action |-> "OPEN_SHORT", riskFraction |-> RISK_FRACTION]

\* the mapper with a risk fraction of 0.05
mapPredictionToTradeIntent_LowRisk(p) ==
    IF p.confidence < MIN_CONFIDENCE
    THEN [action |-> "DO_NOTHING", riskFraction |-> NO_RISK]
    ELSE IF p.direction = "LONG"
    THEN [action |-> "OPEN_LONG", riskFraction |-> [num |-> 1, den |-> 20]]
    ELSE IF p.direction = "SHORT"
    THEN [action |-> "OPEN_SHORT", riskFraction |-> [num |-> 1, den |-> 20]]
    ELSE [action |-> "DO_NOTHING", riskFraction |-> NO_RISK]

mapPredictionToTradeIntent(p) ==
    IF p.confidence < MIN_CONFIDENCE
    THEN [action |-> "DO_NOTHING", riskFraction |-> NO_RISK]
    ELSE IF p.direction = "LONG"
    THEN [action |-> "OPEN_LONG", riskFraction |-> RISK_FRACTION]
    ELSE IF p.direction = "SHORT"
    THEN [action |-> "OPEN_SHORT", riskFraction |-> RISK_FRACTION]
    ELSE [action |-> "DO_NOTHING", riskFraction |-> NO_RISK]

(***************************************************************************)
(* Exit decision                                                           *)
(***************************************************************************)
FLIP == "Signal flipped direction"
TAKE_PROFIT == "Take profit triggered"
STOP_LOSS == "Stop loss triggered"
MAX_AGE == "Max position age exceeded (24h)"
NO_REASON == "null"

\* pos.entryPrice && pos.markPrice: neither is null or 0
pricesKnown(pos) ==
    /\ pos.entryPrice # Null /\ The(pos.entryPrice).m # <<>>
    /\ pos.markPrice # Null /\ The(pos.markPrice).m # <<>>

\* movePct: (mark - entry) / entry for a long, (entry - mark) / entry for a
\* short, each operation rounded to a double
movePct(pos) ==
    IF pos.side = "long"
    THEN DDiv(DSub(The(pos.markPrice), The(pos.entryPrice)), The(pos.entryPrice))
    ELSE DDiv(DSub(The(pos.entryPrice), The(pos.markPrice)), The(pos.entryPrice))

isFlip(pos, int) ==
    \/ int.action = "OPEN_LONG" /\ pos.side = "short"
    \/ int.action = "OPEN_SHORT" /\ pos.side = "long"

evaluateExitDecision_PriceFirst(pos, int, t) ==
    LET move == movePct(pos)
    IN  IF /\ pricesKnown(pos)
           /\ DLeq(TP_THRESHOLD_PCT, move)
        THEN [shouldClose |-> TRUE, reason |-> TAKE_PROFIT]
        ELSE IF /\ pricesKnown(pos)
                /\ DLeq(move, SL_THRESHOLD_PCT)
        THEN [shouldClose |-> TRUE, reason |-> STOP_LOSS]
        ELSE IF isFlip(pos, int)
        THEN [shouldClose |-> TRUE, reason |-> FLIP]
        ELSE IF Truthy(pos.createdAtMs) /\ t - The(pos.createdAtMs) >= MAX_POSITION_AGE_MS
        THEN [shouldClose |-> TRUE, reason |-> MAX_AGE]
        ELSE [shouldClose |-> FALSE, reason |-> NO_REASON]

\* the exit decision that evaluates price and age triggers only when entry
\* price, mark price and opened-at time are all known
evaluateExitDecision_AllOrNothing(pos, int, t) ==
    LET move == movePct(pos)
        known == pricesKnown(pos) /\ Truthy(pos.createdAtMs)
    IN  IF isFlip(pos, int)
        THEN [shouldClose |-> TRUE, reason |-> FLIP]
        ELSE IF known /\ DLeq(TP_THRESHOLD_PCT, move)
        THEN [shouldClose |-> TRUE, reason |-> TAKE_PROFIT]
        ELSE IF known /\ DLeq(move, SL_THRESHOLD_PCT)
        THEN [shouldClose |-> TRUE, reason |-> STOP_LOSS]
        ELSE IF known /\ t - The(pos.createdAtMs) >= MAX_POSITION_AGE_MS
        THEN [shouldClose |-> TRUE, reason |-> MAX_AGE]
        ELSE [shouldClose |-> FALSE, reason |-> NO_REASON]

evaluateExitDecision(pos, int, t) ==
    LET move == movePct(pos)
    IN  IF isFlip(pos, int)
        THEN [shouldClose |-> TRUE, reason |-> FLIP]
        ELSE IF /\ pricesKnown(pos)
                /\ DLeq(TP_THRESHOLD_PCT, move)
        THEN [shouldClose |-> TRUE, reason |-> TAKE_PROFIT]
        ELSE IF /\ pricesKnown(pos)
                /\ DLeq(move, SL_THRESHOLD_PCT)
        THEN [shouldClose |-> TRUE, reason |-> STOP_LOSS]
        ELSE IF Truthy(pos.createdAtMs) /\ t - The(pos.createdAtMs) >= MAX_POSITION_AGE_MS
        THEN [shouldClose |-> TRUE, reason |-> MAX_AGE]
        ELSE [shouldClose |-> FALSE, reason |-> NO_REASON]

(***************************************************************************)
(* The venue's answer to GET /positions                                    *)
(***************************************************************************)
\* String.prototype.toLowerCase on the side strings of the model
toLowerCase(str) ==
    CASE str = "LONG" -> "long"
      [] str = "SHORT" -> "short"
      [] OTHER -> str

isOpenPosition(p) == ~p.isClosed

\* the filter of fetchOpenPerpsPositions over positionsRaw
filterOpenPositions(positionsRaw) == SelectSeq(positionsRaw, isOpenPosition)

\* fetchOpenPerpsPositions on the answer r of axios.get: r.threw is a network
\* error or a timeout; r.status is the HTTP status, which validateStatus
\* accepts whatever it is; r.body is the shape of resp.data: "empty" (falsy),
\* "error" (an error field), "array", "positionsField" (data.positions is an
\* array) or "other" (anything else: a string, an object without either).
\* {} is null.
fetchOpenPerpsPositions(r) ==
    IF r.threw THEN Null
    ELSE IF r.body \in {"empty", "error"} THEN Null
    ELSE LET positionsRaw ==
                 IF r.body \in {"array", "positionsField"} THEN r.positions ELSE <<>>
         IN  Some(filterOpenPositions(positionsRaw))

\* the number of price units in one USD: the venue reports a price as a
\* decimal, and the model carries a reported price as its count of units
PriceScale == 1000

\* the prices the venue of the model may report, in price units
ReportedPrices ==
    {0, 96400, 96500, 96600, 96693, 100000, 100200, 103400, 103500, 103600,
     103707}

\* Number(v) of a reported price: the double nearest to the decimal
NumberOfPrice == [p \in ReportedPrices |-> DecimalOf(p, PriceScale)]

\* numOrNull of a reported price: null stays null, a decimal becomes its
\* double
numOrNull(v) == IF v = Null THEN Null ELSE Some(NumberOfPrice[The(v)])

\* normalizePerpsPosition: {} (null) when the side is not long / short.  The
\* opened-at time and the size are integers, which numOrNull leaves as they
\* are.
normalizePerpsPosition(p) ==
    LET sideRaw == toLowerCase(p.side)
    IN  IF sideRaw \notin {"long", "short"}
        THEN Null
        ELSE Some([side |-> sideRaw,
                   entryPrice |-> numOrNull(p.entryPrice),
                   markPrice |-> numOrNull(p.markPrice),
                   createdAtMs |-> p.createdAtMs,
                   sizeUsd |-> p.sizeUsd])

isNormalizable(p) == normalizePerpsPosition(p) # Null

\* openPositions.map(normalizePerpsPosition).filter(p => !!p)
normalizeAll(open) ==
    LET kept == SelectSeq(open, isNormalizable)
    IN  [i \in 1..Len(kept) |-> The(normalizePerpsPosition(kept[i]))]

(***************************************************************************)
(* Order payloads                                                          *)
(***************************************************************************)
\* one USD in the unit of sizeUsdDelta (6 decimals)
MICRO == 1000 * 1000
\* lamports per SOL
LAMPORTS_PER_SOL == 1000 * 1000 * 1000
assumedSolPriceUsd == 100
minCollateralUsd == 10
notionalCapUsd == 10
minNotionalUsd == 1

\* sizeUsdDelta of a close: null when the size is unknown or not positive
closeSizeUsdDelta(pos) ==
    IF Truthy(pos.sizeUsd) /\ The(pos.sizeUsd) > 0
    THEN Some(Max(1, The(pos.sizeUsd) * MICRO))
    ELSE Null

closePayload(pos, size) ==
    [side |-> pos.side,
     reduceOnly |-> TRUE,
     sizeUsdDelta |-> size,
     collateralTokenDelta |-> 0,
     collateralMint |-> IF pos.side = "short" THEN "USDC" ELSE "SOL"]

intentSide(int) == IF int.action = "OPEN_LONG" THEN "long" ELSE "short"

\* the target without the cap of 10 USD
targetUsd_Uncapped(balanceUsd, int) ==
    Max(0, (balanceUsd * int.riskFraction.num) \div int.riskFraction.den)

\* targetUsd = max(0, min(balanceUsd * riskFraction, 10)), in micro-USD
targetUsd(balanceUsd, int) ==
    Max(0, Min((balanceUsd * int.riskFraction.num) \div int.riskFraction.den,
               notionalCapUsd * MICRO))

openSizeUsdDelta_Unraised(target) == Max(1, target)

\* sizeUsdDelta of an open: floor(max(max(targetUsd, 12), 13) * 1e6)
openSizeUsdDelta(target) ==
    LET adjustedTargetUsd == Max(target, (minCollateralUsd * MICRO * 12) \div 10)
        collateralUsd == minCollateralUsd * MICRO
        sizeUsdTarget == Max(adjustedTargetUsd, (collateralUsd * 13) \div 10)
    IN  Max(1, sizeUsdTarget)

openPayload(side, target) ==
    [side |-> side,
     reduceOnly |-> FALSE,
     sizeUsdDelta |-> openSizeUsdDelta(target),
     collateralTokenDelta |->
        IF side = "short"
        THEN Max(1, minCollateralUsd * MICRO)
        ELSE Max(1, minCollateralUsd * (LAMPORTS_PER_SOL \div assumedSolPriceUsd)),
     collateralMint |-> IF side = "short" THEN "USDC" ELSE "SOL"]

(***************************************************************************)
(* buildAndSendPerpsTx, from the answer of the positions query to the      *)
(* first of: a return, the close request, the balance query.               *)
(***************************************************************************)
positionBranch_OpenUnnormalized(open, int, t) ==
    LET \* the branch on the exit decision d of the position currentPos
        exitBranch(currentPos, d, size) ==
            IF d.shouldClose
            THEN IF size = Null
                 THEN [next |-> "noSize", exit |-> Some(d), payload |-> Null]
                 ELSE [next |-> "close", exit |-> Some(d),
                       payload |-> Some(closePayload(currentPos, The(size)))]
            ELSE [next |-> "hold", exit |-> Some(d), payload |-> Null]
        normalizedBranch(normalized) ==
            IF Len(normalized) = 0
            THEN [next |-> "flat", exit |-> Null, payload |-> Null]
            ELSE exitBranch(normalized[1],
                            evaluateExitDecision(normalized[1], int, t),
                            closeSizeUsdDelta(normalized[1]))
    IN  IF open = Null
        THEN [next |-> "unverified", exit |-> Null, payload |-> Null]
        ELSE IF Len(The(open)) > 0
        THEN normalizedBranch(normalizeAll(The(open)))
        ELSE [next |-> "flat", exit |-> Null, payload |-> Null]

positionBranch(open, int, t) ==
    LET \* the branch on the exit decision d of the position currentPos
        exitBranch(currentPos, d, size) ==
            IF d.shouldClose
            THEN IF size = Null
                 THEN [next |-> "noSize", exit |-> Some(d), payload |-> Null]
                 ELSE [next |-> "close", exit |-> Some(d),
                       payload |-> Some(closePayload(currentPos, The(size)))]
            ELSE [next |-> "hold", exit |-> Some(d), payload |-> Null]
        normalizedBranch(normalized) ==
            IF Len(normalized) = 0
            THEN [next |-> "unnormalized", exit |-> Null, payload |-> Null]
            ELSE exitBranch(normalized[1],
                            evaluateExitDecision(normalized[1], int, t),
                            closeSizeUsdDelta(normalized[1]))
    IN  IF open = Null
        THEN [next |-> "unverified", exit |-> Null, payload |-> Null]
        ELSE IF Len(The(open)) > 0
        THEN normalizedBranch(normalizeAll(The(open)))
        ELSE [next |-> "flat", exit |-> Null, payload |-> Null]

(***************************************************************************)
(* buildAndSendPerpsTx, the open path: from a balance to a return or the   *)
(* open request.                                                           *)
(***************************************************************************)
\* balanceSol * assumedSolPriceUsd, in micro-USD
solBalanceUsd(lamports) ==
    lamports \div (LAMPORTS_PER_SOL \div (MICRO * assumedSolPriceUsd))

\* Math.ceil((minCollateralUsd / assumedSolPriceUsd) * 1e9)
requiredCollateralLamports ==
    minCollateralUsd * (LAMPORTS_PER_SOL \div assumedSolPriceUsd)

sizingBranch_NoMinimum(side, balanceUsd, int) ==
    [next |-> "open",
     payload |-> Some(openPayload(side, targetUsd(balanceUsd, int)))]

sizingBranch(side, balanceUsd, int) ==
    LET target == targetUsd(balanceUsd, int)
    IN  IF target < minNotionalUsd * MICRO
        THEN [next |-> "belowMinNotional", payload |-> Null]
        ELSE [next |-> "open", payload |-> Some(openPayload(side, target))]

\* after connection.getBalance
solBranch(lamports, int) ==
    LET side == intentSide(int)
    IN  IF lamports <= 0
        THEN [next |-> "noFees", payload |-> Null]
        ELSE IF side = "short"
        THEN [next |-> "getUsdcBalance", payload |-> Null]
        ELSE IF lamports < requiredCollateralLamports
        THEN [next |-> "lowCollateral", payload |-> Null]
        ELSE sizingBranch(side, solBalanceUsd(lamports), int)

usdcBranch_NoMinimum(usdc, int) == sizingBranch("short", usdc, int)

\* after getUsdcBalance (short side); usdc is the token amount, 6 decimals
usdcBranch(usdc, int) ==
    IF usdc < minCollateralUsd * MICRO
    THEN [next |-> "lowCollateral", payload |-> Null]
    ELSE sizingBranch("short", usdc, int)

(***************************************************************************)
(* Prediction file                                                         *)
(***************************************************************************)
isValidPrediction_NoTargetPrice(f) ==
    /\ f.isObject
    /\ f.timestampType = "string"
    /\ f.direction \in {"LONG", "SHORT"}
    /\ f.confidenceType = "number"
    /\ f.reasoningType = "string"

\* the condition under which readLatestPrediction returns instead of throwing
isValidPrediction(f) ==
    /\ f.isObject
    /\ f.timestampType = "string"
    /\ f.direction \in {"LONG", "SHORT"}
    /\ f.confidenceType = "number"
    /\ f.targetPriceType = "number"
    /\ f.reasoningType = "string"

predictionOf(f) == [direction |-> f.direction, confidence |-> f.confidence]

(***************************************************************************)
(* Inputs of the tick                                                      *)
(***************************************************************************)
MaxTicks == 3

GoodFile(dir, conf) ==
    [isObject |-> TRUE, timestampType |-> "string", direction |-> dir,
     confidenceType |-> "number", confidence |-> conf,
     targetPriceType |-> "number", reasoningType |-> "string"]

TickConfidences == {549, 550}

\* confidences outside [0, 100]: -1 and 101
OutOfRangeConfidences == {-10, 1010}

\* the records JSON.parse may give: forecasts of both directions around the
\* confidence threshold; forecasts whose confidence is out of range; null;
\* records with one field missing or of the wrong type
PredictionFiles ==
    {GoodFile(d, c) : d \in Directions, c \in TickConfidences}
    \cup {GoodFile("LONG", c) : c \in OutOfRangeConfidences}
    \cup {[GoodFile("LONG", 900) EXCEPT !.isObject = FALSE],
          [GoodFile("LONG", 900) EXCEPT !.timestampType = "undefined"],
          GoodFile("NEUTRAL", 900),
          [GoodFile("SHORT", 900) EXCEPT !.confidenceType = "string"],
          [GoodFile("LONG", 900) EXCEPT !.targetPriceType = "undefined"],
          [GoodFile("LONG", 900) EXCEPT !.targetPriceType = "string"],
          [GoodFile("SHORT", 900) EXCEPT !.reasoningType = "undefined"]}

EntryPrices == {Null, Some(100000)}
MarkPrices == {Null, Some(96400), Some(100000), Some(103600)}
SizesUsd == {Null, Some(13)}
StartTime == 2 * MAX_POSITION_AGE_MS
\* opened-at times of the positions found at start: unknown, or 24h less one
\* interval before the first tick
StartCreatedAts ==
    {Null, Some(StartTime - MAX_POSITION_AGE_MS + INTERVAL_MS)}

StartPositions ==
    [side : {"long", "short"}, entryPrice : EntryPrices, markPrice : MarkPrices,
     createdAtMs : StartCreatedAts, sizeUsd : SizesUsd]

ClosedRecord ==
    [side |-> "long", isClosed |-> TRUE, entryPrice |-> Some(100000),
     markPrice |-> Some(103600), createdAtMs |-> Null, sizeUsd |-> Some(13)]

SideForms == {"lower", "upper", "absent"}
SideRendering(side, form) ==
    CASE form = "lower" -> side
      [] form = "upper" -> (IF side = "long" THEN "LONG" ELSE "SHORT")
      [] OTHER -> ""

rawPosition(vp, sideRaw) ==
    [side |-> sideRaw, isClosed |-> FALSE, entryPrice |-> vp.entryPrice,
     markPrice |-> vp.markPrice, createdAtMs |-> vp.createdAtMs,
     sizeUsd |-> vp.sizeUsd]

\* the open positions vp in the orders in which the venue may list them
Orders(vp) ==
    IF vp = {} THEN {<<>>}
    ELSE IF Cardinality(vp) = 1 THEN {<<The(vp)>>}
    ELSE {o \in vp \X vp : o[1] # o[2]}

\* the positions a venue holding vp lists: an optional closed record, then
\* the open positions, their sides in one of the renderings
PositionLists(vp) ==
    {h \o [i \in 1..Len(o) |-> rawPosition(o[i], SideRendering(o[i].side, form))] :
        h \in {<<>>, <<ClosedRecord>>},
        o \in Orders(vp),
        form \in IF vp = {} THEN {"lower"} ELSE SideForms}

HTTP_OK == 200
HTTP_BAD_GATEWAY == 502

\* the answers to GET /positions for a venue holding vp: the request throws;
\* the venue answers 200 with its list; the venue or a gateway answers with an
\* error status and an empty body, a body with an error field, or another
\* body (an error page, a {message} object)
PositionResponses(vp) ==
    {[threw |-> TRUE, status |-> 0, body |-> "empty", positions |-> <<>>]}
    \cup {[threw |-> FALSE, status |-> HTTP_OK, body |-> b, positions |-> l] :
            b \in {"array", "positionsField"}, l \in PositionLists(vp)}
    \cup {[threw |-> FALSE, status |-> HTTP_BAD_GATEWAY, body |-> b, positions |-> <<>>] :
            b \in {"empty", "error", "other"}}

\* 0, 0.05, just under 0.1, 0.1 and 0.2 SOL
LamportBalances == {0, 50000000, 99999990, 100000000, 200000000}
\* 0, 5, just under 10, 10 and 50 USDC
UsdcAmounts == {0, 5000000, 9999990, 10000000, 50000000}

ApiResponses ==
    [error : BOOLEAN, serializedTxBase64 : BOOLEAN, positionPubkey : {Null, Some("pk")}]

\* the record the venue reports for a position the bot opened at time t: its
\* entry price and opening time are known, its size may not be reported
NewPositions(side, t) ==
    [side : {side}, entryPrice : {Some(100000)}, markPrice : {Some(100000)},
     createdAtMs : {Some(t)}, sizeUsd : SizesUsd]

\* the venue's positions one interval later: the market's mark price has
\* moved to m, and every position that reports a mark price reports m
MovedTo(vp, m) ==
    {[p EXCEPT !.markPrice = IF p.markPrice = Null THEN Null ELSE m] : p \in vp}
Moved(vp) ==
    IF \A p \in vp : p.markPrice = Null THEN {vp}
    ELSE {MovedTo(vp, m) : m \in MarkPrices \ {Null}}

(***************************************************************************)
(* The tick loop                                                           *)
(***************************************************************************)
TickReset ==
    /\ parsed = Null /\ pred = Null /\ intent = Null
    /\ posResp = Null /\ openPositions = Null /\ exitDecision = Null
    /\ balance = Null /\ payload = Null /\ requests = <<>>
    /\ apiResp = Null /\ txSig = Null

\* the loop has started no tick; the indicator engine is not part of the run
IdleRest ==
    /\ inFlight = {} /\ tickEnded = Null
    /\ spot = Null /\ chart = Null /\ derived = Null

Init ==
    /\ pc = "loop"
    /\ now = StartTime
    /\ ticks = 0
    /\ venuePos \in {{}} \cup {{p} : p \in StartPositions}
    /\ tickPos = Null
    /\ outcome = "none"
    /\ TickReset
    /\ IdleRest

\* the tick ends: buildAndSendPerpsTx returned sig (or was never called) and
\* the loop goes to its sleep
EndTickAt_Uncaught(how, sig, t) ==
    /\ outcome' = how
    /\ txSig' = sig
    /\ pc' = IF how = "threw" THEN "exited" ELSE "sleep"
    /\ inFlight' = inFlight \ {ticks}
    /\ tickEnded' = Some(t)

\* the tick settles at time t: runSolPerpsBotOnce returned or threw (how), the
\* loop caught what it threw and goes to its sleep
EndTickAt(how, sig, t) ==
    /\ outcome' = how
    /\ txSig' = sig
    /\ pc' = "sleep"
    /\ inFlight' = inFlight \ {ticks}
    /\ tickEnded' = Some(t)

EndTick(how, sig) == EndTickAt(how, sig, now)

LoopTick_OnTimer ==
    /\ pc \in {"loop", "readPrediction"}
    /\ ticks < MaxTicks
    /\ pc' = "readPrediction"
    /\ ticks' = ticks + 1
    /\ tickPos' = venuePos
    /\ outcome' = "running"
    /\ inFlight' = inFlight \cup {ticks + 1}
    /\ UNCHANGED tickEnded
    /\ UNCHANGED <<now, venuePos, parsed, pred, intent, posResp,
                   openPositions, exitDecision, balance, payload, requests,
                   apiResp, txSig>>
    /\ UNCHANGED indVars

\* loop.ts: the top of the while loop starts a tick
LoopTick ==
    /\ pc = "loop"
    /\ ticks < MaxTicks
    /\ pc' = "readPrediction"
    /\ ticks' = ticks + 1
    /\ tickPos' = venuePos
    /\ outcome' = "running"
    /\ inFlight' = inFlight \cup {ticks + 1}
    /\ UNCHANGED tickEnded
    /\ UNCHANGED <<now, venuePos, parsed, pred, intent, posResp,
                   openPositions, exitDecision, balance, payload, requests,
                   apiResp, txSig>>
    /\ UNCHANGED indVars

\* runSolPerpsBotOnce up to the positions query: the file read throws, or the
\* parsed record fails validation (the tick throws), or the intent is mapped
\* and, unless it is DO_NOTHING, executeTrade loads the wallet (which may
\* throw) and buildAndSendPerpsTx sends the positions query
ReadLatestPrediction ==
    /\ pc = "readPrediction"
    /\ \/ /\ EndTick("threw", Null)
          /\ UNCHANGED <<parsed, pred, intent>>
       \/ \E f \in PredictionFiles :
             /\ parsed' = Some(f)
             /\ IF ~isValidPrediction(f)
                THEN /\ EndTick("threw", Null)
                     /\ UNCHANGED <<pred, intent>>
                ELSE LET i == mapPredictionToTradeIntent(predictionOf(f))
                     IN  /\ pred' = Some(predictionOf(f))
                         /\ intent' = Some(i)
                         /\ IF i.action = "DO_NOTHING"
                            THEN EndTick("doNothing", Null)
                            ELSE \/ /\ pc' = "fetchPositions"
                                    /\ UNCHANGED <<outcome, txSig, inFlight, tickEnded>>
                                 \/ EndTick("threw", Null)
    /\ UNCHANGED <<now, ticks, venuePos, tickPos, posResp, openPositions,
                   exitDecision, balance, payload, requests, apiResp>>
    /\ UNCHANGED indVars

\* the answer to GET /positions arrives: buildAndSendPerpsTx runs to a return,
\* to the close request or to the balance query
FetchOpenPerpsPositions ==
    /\ pc = "fetchPositions"
    /\ \E r \in PositionResponses(venuePos) :
        \E open \in {fetchOpenPerpsPositions(r)} :
        \E b \in {positionBranch(open, The(intent), now)} :
              /\ posResp' = Some([threw |-> r.threw, status |-> r.status, body |-> r.body])
              /\ openPositions' = open
              /\ exitDecision' = b.exit
              /\ payload' = b.payload
              /\ CASE b.next = "close" ->
                        /\ requests' = Append(requests, The(b.payload))
                        /\ pc' = "apiPost"
                        /\ UNCHANGED <<outcome, txSig, inFlight, tickEnded>>
                   [] b.next = "flat" ->
                        /\ pc' = "getBalance"
                        /\ UNCHANGED <<requests, outcome, txSig, inFlight, tickEnded>>
                   [] OTHER ->
                        /\ EndTick(b.next, Null)
                        /\ UNCHANGED requests
    /\ UNCHANGED <<now, ticks, venuePos, tickPos, parsed, pred, intent,
                   balance, apiResp>>
    /\ UNCHANGED indVars

\* emit the open request, go on to another balance, or return null
OpenBranch(b) ==
    /\ payload' = b.payload
    /\ CASE b.next = "open" ->
              /\ requests' = Append(requests, The(b.payload))
              /\ pc' = "apiPost"
              /\ UNCHANGED <<outcome, txSig, inFlight, tickEnded>>
         [] b.next = "getUsdcBalance" ->
              /\ pc' = "getUsdcBalance"
              /\ UNCHANGED <<requests, outcome, txSig, inFlight, tickEnded>>
         [] OTHER ->
              /\ EndTick(b.next, Null)
              /\ UNCHANGED requests

\* connection.getBalance answers, or throws
GetBalance ==
    /\ pc = "getBalance"
    /\ \/ /\ EndTick("rpcError", Null)
          /\ UNCHANGED <<balance, payload, requests>>
       \/ \E lamports \in LamportBalances :
             /\ balance' = Some(lamports)
             /\ OpenBranch(solBranch(lamports, The(intent)))
    /\ UNCHANGED <<now, ticks, venuePos, tickPos, parsed, pred, intent,
                   posResp, openPositions, exitDecision, apiResp>>
    /\ UNCHANGED indVars

\* getUsdcBalance answers (0 when the token account cannot be read)
GetUsdcBalance ==
    /\ pc = "getUsdcBalance"
    /\ \E usdc \in UsdcAmounts :
          /\ balance' = Some(usdc)
          /\ OpenBranch(usdcBranch(usdc, The(intent)))
    /\ UNCHANGED <<now, ticks, venuePos, tickPos, parsed, pred, intent,
                   posResp, openPositions, exitDecision, apiResp>>
    /\ UNCHANGED indVars

PerpsApiResponse_Retry ==
    /\ pc = "apiPost"
    /\ \/ /\ EndTick("apiThrew", Null)
          /\ UNCHANGED <<apiResp, requests>>
       \/ \E resp \in ApiResponses :
             /\ apiResp' = Some(resp)
             /\ IF resp.error \/ ~resp.serializedTxBase64
                THEN /\ requests' = Append(requests, The(payload))
                     /\ UNCHANGED <<pc, outcome, txSig, inFlight, tickEnded>>
                ELSE /\ pc' = "getBlockhash"
                     /\ UNCHANGED <<outcome, txSig, requests, inFlight, tickEnded>>
    /\ UNCHANGED <<now, ticks, venuePos, tickPos, parsed, pred, intent,
                   posResp, openPositions, exitDecision, balance, payload>>
    /\ UNCHANGED indVars

\* submitPerpsApiTx: the answer to the POST arrives, or the POST throws
PerpsApiResponse ==
    /\ pc = "apiPost"
    /\ \/ /\ EndTick("apiThrew", Null)
          /\ UNCHANGED apiResp
       \/ \E resp \in ApiResponses :
             /\ apiResp' = Some(resp)
             /\ IF resp.error \/ ~resp.serializedTxBase64
                THEN EndTick("apiError", Null)
                ELSE /\ pc' = "getBlockhash"
                     /\ UNCHANGED <<outcome, txSig, inFlight, tickEnded>>
    /\ UNCHANGED <<now, ticks, venuePos, tickPos, parsed, pred, intent,
                   posResp, openPositions, exitDecision, balance, payload,
                   requests>>
    /\ UNCHANGED indVars

\* await connection.getLatestBlockhash: it rejects, or the transaction gets
\* its blockhash and is signed
GetLatestBlockhash ==
    /\ pc = "getBlockhash"
    /\ \/ EndTick("rpcError", Null)
       \/ /\ pc' = "sendRaw"
          /\ UNCHANGED <<outcome, txSig, inFlight, tickEnded>>
    /\ UNCHANGED <<now, ticks, venuePos, tickPos, parsed, pred, intent,
                   posResp, openPositions, exitDecision, balance, payload,
                   requests, apiResp>>
    /\ UNCHANGED indVars

\* await connection.sendRawTransaction: it rejects with an error that has no
\* getLogs and null is returned, it rejects with one that has and the logs
\* are asked for, or the signature comes back
SendRawTransaction ==
    /\ pc = "sendRaw"
    /\ \/ EndTick("sendFailed", Null)
       \/ /\ pc' = "getLogs"
          /\ UNCHANGED <<outcome, txSig, inFlight, tickEnded>>
       \/ /\ pc' = "confirm"
          /\ UNCHANGED <<outcome, txSig, inFlight, tickEnded>>
    /\ UNCHANGED <<now, ticks, venuePos, tickPos, parsed, pred, intent,
                   posResp, openPositions, exitDecision, balance, payload,
                   requests, apiResp>>
    /\ UNCHANGED indVars

\* await ste.getLogs(connection): whether it resolves or rejects, null is
\* returned
GetLogs ==
    /\ pc = "getLogs"
    /\ EndTick("sendFailed", Null)
    /\ UNCHANGED <<now, ticks, venuePos, tickPos, parsed, pred, intent,
                   posResp, openPositions, exitDecision, balance, payload,
                   requests, apiResp>>
    /\ UNCHANGED indVars

\* the venue after the transaction of payload pl has landed: a close
\* removes the position of its side; an open creates the position of its
\* side, or adds its size to the one the venue already holds on that side
Landed(pl) ==
    LET same == {p \in venuePos : p.side = pl.side}
        rest == venuePos \ same
        grown(p) == [p EXCEPT !.sizeUsd =
                        IF p.sizeUsd = Null THEN Null
                        ELSE Some(The(p.sizeUsd) + pl.sizeUsdDelta \div MICRO)]
    IN  IF pl.reduceOnly THEN {rest}
        ELSE IF same # {} THEN {rest \cup {grown(p) : p \in same}}
        ELSE {rest \cup {p} : p \in NewPositions(pl.side, now)}

ConfirmTransaction_Optimistic ==
    /\ pc = "confirm"
    /\ \/ /\ EndTick("confirmError", Null)
          /\ UNCHANGED venuePos
       \/ /\ EndTick("confirmTimeout", The(apiResp).positionPubkey)
          /\ venuePos' \in {venuePos} \cup Landed(The(payload))
       \/ /\ EndTick("confirmed", The(apiResp).positionPubkey)
          /\ venuePos' \in Landed(The(payload))
    /\ UNCHANGED <<now, ticks, tickPos, parsed, pred, intent, posResp,
                   openPositions, exitDecision, balance, payload, requests,
                   apiResp>>
    /\ UNCHANGED indVars

\* confirmTransaction: an RPC error, a timeout (the transaction may have
\* landed or not), or the confirmation
ConfirmTransaction ==
    /\ pc = "confirm"
    /\ \/ /\ EndTick("confirmError", Null)
          /\ UNCHANGED venuePos
       \/ /\ EndTick("confirmTimeout", Null)
          /\ venuePos' \in {venuePos} \cup Landed(The(payload))
       \/ /\ EndTick("confirmed", The(apiResp).positionPubkey)
          /\ venuePos' \in Landed(The(payload))
    /\ UNCHANGED <<now, ticks, tickPos, parsed, pred, intent, posResp,
                   openPositions, exitDecision, balance, payload, requests,
                   apiResp>>
    /\ UNCHANGED indVars

\* loop.ts: the sleep of INTERVAL_MS ends; what the tick held is gone
Sleep ==
    /\ pc = "sleep"
    /\ pc' = "loop"
    /\ now' = now + INTERVAL_MS
    /\ venuePos' \in Moved(venuePos)
    /\ tickPos' = {}
    /\ outcome' = "none"
    /\ parsed' = Null /\ pred' = Null /\ intent' = Null
    /\ posResp' = Null /\ openPositions' = Null /\ exitDecision' = Null
    /\ balance' = Null /\ payload' = Null /\ requests' = <<>>
    /\ apiResp' = Null /\ txSig' = Null
    /\ UNCHANGED <<ticks, inFlight, tickEnded>>
    /\ UNCHANGED indVars

Next ==
    \/ LoopTick
    \/ ReadLatestPrediction
    \/ FetchOpenPerpsPositions
    \/ GetBalance
    \/ GetUsdcBalance
    \/ PerpsApiResponse
    \/ GetLatestBlockhash
    \/ SendRawTransaction
    \/ GetLogs
    \/ ConfirmTransaction
    \/ Sleep

Spec == Init /\ [][Next]_vars

(***************************************************************************)
(* Indicator engine (fetchIndicators.ts).  A JavaScript number is a double; *)
(* NaN is {} where a value may be NaN.  A square root is carried as its    *)
(* radicand.                                                               *)
(***************************************************************************)
\* the values JSON.parse may put where a number is expected
RawNumber(v) == [kind |-> "number", v |-> v]
RawNumericText(v) == [kind |-> "numericText", v |-> v]
RawNull == [kind |-> "null", v |-> DoubleOf(0)]
RawMissing == [kind |-> "undefined", v |-> DoubleOf(0)]
RawText == [kind |-> "text", v |-> DoubleOf(0)]
RawEmptyText == [kind |-> "emptyText", v |-> DoubleOf(0)]

\* Number(x): null and "" are 0, undefined and other text are NaN
NumberOf(raw) ==
    CASE raw.kind \in {"number", "numericText"} -> Some(raw.v)
      [] raw.kind \in {"null", "emptyText"} -> Some(DoubleOf(0))
      [] OTHER -> Null

\* parseFloat(x) of a string: "" and other text are NaN
parseFloat(raw) == IF raw.kind = "numericText" THEN Some(raw.v) ELSE Null

\* requireNumber: {} when it throws
requireNumber(raw) ==
    IF raw.kind \in {"numericText", "text", "emptyText"}
    THEN parseFloat(raw)
    ELSE NumberOf(raw)

\* Array.isArray(p) ? Number(p[1]) : NaN
pointValue(p) == IF p.isArray THEN NumberOf(p.value) ELSE Null
isFinitePoint(p) == pointValue(p) # Null

\* points.map(p => Array.isArray(p) ? Number(p[1]) : NaN).filter(Number.isFinite)
finiteValues(points) ==
    LET kept == SelectSeq(points, isFinitePoint)
    IN  [i \in 1..Len(kept) |-> The(pointValue(kept[i]))]

\* values.slice(-n)
lastN(values, n) == SubSeq(values, Max(1, Len(values) - n + 1), Len(values))

\* the reduce from index i on, acc being the sum so far (the test of
\* acc.m, which never holds, has acc computed before the next step)
RECURSIVE sumFrom(_, _, _)
sumFrom(values, i, acc) ==
    IF i > Len(values) \/ Len(acc.m) < 0 THEN acc
    ELSE sumFrom(values, i + 1, DAdd(acc, values[i]))

\* values.reduce((a, b) => a + b, 0)
DSum(values) == sumFrom(values, 1, DoubleOf(0))

\* the loop of computeEma from index i on, ema being its variable
RECURSIVE emaFrom(_, _, _, _)
emaFrom(values, i, ema, k) ==
    IF i > Len(values) \/ Len(ema.m) < 0 THEN ema
    ELSE emaFrom(values, i + 1,
                 DAdd(DMul(values[i], k), DMul(ema, DSub(DoubleOf(1), k))), k)

\* computeEma of a non-empty array (it throws on an empty one)
computeEma(values, period) ==
    emaFrom(values, 2, values[1], DDiv(DoubleOf(2), DoubleOf(period + 1)))

\* the pair of values[i] and values[i + 1] is skipped: prev === 0
skipsReturn(pair) == pair.prev.m = <<>>

\* the percent returns between consecutive values, where prev !== 0
returnsOf(values) ==
    LET pairs == [i \in 1..(Len(values) - 1) |->
                     [prev |-> values[i], curr |-> values[i + 1]]]
        kept == SelectSeq(pairs, LAMBDA pair : ~skipsReturn(pair))
    IN  [i \in 1..Len(kept) |->
            DMul(DDiv(DSub(kept[i].curr, kept[i].prev), kept[i].prev), DoubleOf(100))]

\* computeStdDevPct, as the variance whose square root it returns
computeStdDevPct(values) ==
    IF Len(values) < 2 THEN DoubleOf(0)
    ELSE LET returns == returnsOf(values)
         IN  IF Len(returns) = 0 THEN DoubleOf(0)
             ELSE LET mean == DDiv(DSum(returns), DoubleOf(Len(returns)))
                      sq == [i \in 1..Len(returns) |->
                                DMul(DSub(returns[i], mean), DSub(returns[i], mean))]
                  IN  DDiv(DSum(sq), DoubleOf(Len(returns)))

\* the trend of emaShort against emaLong * 1.002 and emaLong * 0.998
trendOfEmas(emaShort, emaLong) ==
    IF DLess(DMul(emaLong, DecimalOf(1002, 1000)), emaShort) THEN "UP"
    ELSE IF DLess(emaShort, DMul(emaLong, DecimalOf(998, 1000))) THEN "DOWN"
    ELSE "RANGE"

\* the trend of the 24h change against 0.2 and -0.2
trendOfChange(change24hPct) ==
    IF DLess(DecimalOf(2, 10), change24hPct) THEN "UP"
    ELSE IF DLess(change24hPct, DecimalOf(-2, 10)) THEN "DOWN"
    ELSE "RANGE"

\* the SpotStats of the market_data: {} when a requireNumber throws
spotOf(market) ==
    LET price == requireNumber(market.price)
        change == requireNumber(market.change24hPct)
        volume == requireNumber(market.volume24h)
        optional(raw) == IF raw.kind # "undefined" THEN NumberOf(raw) ELSE Null
    IN  IF price = Null \/ change = Null \/ volume = Null
        THEN Null
        ELSE Some([price |-> The(price), change24hPct |-> The(change),
                   volume24h |-> The(volume),
                   high24h |-> optional(market.high24h),
                   low24h |-> optional(market.low24h)])

THREW == [path |-> "threw"]

\* the branch closes.length >= 10
fullIndicators(spotStats, closes, volumePoints) ==
    LET closesWindow == lastN(closes, 48)
        emaShort == computeEma(closesWindow, Min(10, Len(closesWindow)))
        emaLong == computeEma(closesWindow, Min(50, Len(closesWindow)))
        close24Ago == closes[Len(closes) - 24]
        lastClose == closes[Len(closes)]
        volumes == finiteValues(volumePoints)
        last24 == DSum(lastN(volumes, 24))
        prev24 == DSum(SubSeq(volumes, Len(volumes) - 47, Len(volumes) - 24))
    IN  [path |-> "full",
         emaShort |-> emaShort,
         emaLong |-> emaLong,
         trendDirection |-> trendOfEmas(emaShort, emaLong),
         trendStrengthPct |->
            IF Len(closes) > 24 /\ close24Ago.m # <<>>
            THEN DMul(DDiv(DSub(lastClose, close24Ago), close24Ago), DoubleOf(100))
            ELSE spotStats.change24hPct,
         volatility24hPct |->
            [root |-> TRUE, of |-> computeStdDevPct(lastN(closes, 24))],
         volumeTrend24hPct |->
            IF Len(volumePoints) >= 48 /\ Len(volumes) >= 48 /\ DLess(DZero, prev24)
            THEN Some(DMul(DDiv(DSub(last24, prev24), prev24), DoubleOf(100)))
            ELSE Null]

\* the fallback branch: derived indicators from the spot data only
degradedIndicators(spotStats) ==
    LET known(x) == x # Null /\ The(x).m # <<>>
    IN  [path |-> "degraded",
         emaShort |-> spotStats.price,
         emaLong |-> spotStats.price,
         trendDirection |-> trendOfChange(spotStats.change24hPct),
         trendStrengthPct |-> spotStats.change24hPct,
         volatility24hPct |->
            [root |-> FALSE,
             of |-> IF /\ known(spotStats.high24h) /\ known(spotStats.low24h)
                       /\ DLess(DZero, spotStats.price)
                    THEN DDiv(DMul(DDiv(DSub(The(spotStats.high24h), The(spotStats.low24h)),
                                        spotStats.price), DoubleOf(100)), DoubleOf(2))
                    ELSE DMul(DAbs(spotStats.change24hPct), DecimalOf(5, 10))],
         volumeTrend24hPct |-> Null]

\* the part of fetchBtcIndicators up to the chart request throws: the GET
\* of the coin threw, it has no market_data, or a requireNumber threw
snapshotThrows(coin) ==
    coin.threw \/ ~coin.hasMarketData \/ spotOf(coin.market) = Null

\* fetchBtcIndicators without the try around the chart request
fetchBtcIndicators_ChartRequired(coin, chartAns) ==
    IF snapshotThrows(coin) \/ chartAns.threw
    THEN THREW
    ELSE LET spotStats == The(spotOf(coin.market))
             pricePoints == IF chartAns.pricesIsArray THEN chartAns.prices ELSE <<>>
             volumePoints == IF chartAns.volumesIsArray THEN chartAns.volumes ELSE <<>>
             closes == finiteValues(pricePoints)
         IN  IF Len(closes) >= 10
             THEN fullIndicators(spotStats, closes, volumePoints)
             ELSE degradedIndicators(spotStats)

\* fetchBtcIndicators on the answers of the two GETs: coin is the answer to
\* /coins/bitcoin (threw, or its market_data), chartAns the answer to
\* /coins/bitcoin/market_chart (threw, or its prices and total_volumes)
fetchBtcIndicators(coin, chartAns) ==
    IF snapshotThrows(coin)
    THEN THREW
    ELSE LET spotStats == The(spotOf(coin.market))
             pricePoints ==
                 IF ~chartAns.threw /\ chartAns.pricesIsArray THEN chartAns.prices ELSE <<>>
             volumePoints ==
                 IF ~chartAns.threw /\ chartAns.volumesIsArray THEN chartAns.volumes ELSE <<>>
             closes == finiteValues(pricePoints)
         IN  IF Len(closes) >= 10
             THEN fullIndicators(spotStats, closes, volumePoints)
             ELSE degradedIndicators(spotStats)

(***************************************************************************)
(* The indicator engine on its own: one call of fetchBtcIndicators, its    *)
(* two requests answered one after the other from the input sets           *)
(***************************************************************************)
MaxCloses == 11

GoodMarket ==
    [price |-> RawNumber(DoubleOf(100)), change24hPct |-> RawNumber(DecimalOf(3, 10)),
     volume24h |-> RawNumber(DoubleOf(1000)),
     high24h |-> RawMissing, low24h |-> RawMissing]

\* the answers to GET /coins/bitcoin: the request throws, the answer has no
\* market_data, a field is missing, or the snapshot is valid
CoinAnswers ==
    {[threw |-> TRUE, hasMarketData |-> FALSE, market |-> GoodMarket],
     [threw |-> FALSE, hasMarketData |-> FALSE, market |-> GoodMarket],
     [threw |-> FALSE, hasMarketData |-> TRUE,
      market |-> [GoodMarket EXCEPT !.price = RawMissing]],
     [threw |-> FALSE, hasMarketData |-> TRUE, market |-> GoodMarket],
     [threw |-> FALSE, hasMarketData |-> TRUE,
      market |-> [GoodMarket EXCEPT !.change24hPct = RawNumericText(DecimalOf(-5, 10)),
                                    !.high24h = RawNumber(DoubleOf(110)),
                                    !.low24h = RawNumber(DoubleOf(90))]]}

PricePoint(raw) == [isArray |-> TRUE, value |-> raw]
NotAPoint == [isArray |-> FALSE, value |-> RawNumber(DoubleOf(100))]

\* the points that may end a series: a price that moved, a price as text, a
\* null price, a missing one, text that is no number, "", and a non-array
LastPoints ==
    {PricePoint(RawNumber(DoubleOf(105))), PricePoint(RawNumericText(DoubleOf(100))),
     PricePoint(RawNull), PricePoint(RawMissing), PricePoint(RawText),
     PricePoint(RawEmptyText), NotAPoint}

\* hourly series of up to MaxCloses closes at 100, some with one more point
PriceSeries ==
    {[i \in 1..n |-> PricePoint(RawNumber(DoubleOf(100)))] \o tail :
        n \in 0..MaxCloses, tail \in {<<>>} \cup {<<p>> : p \in LastPoints}}

\* no volumes, or 48 hourly volumes that double after 24 hours
VolumeSeries ==
    {<<>>,
     [i \in 1..48 |-> PricePoint(RawNumber(DoubleOf(IF i <= 24 THEN 10 ELSE 20)))]}

ChartAnswers ==
    {[threw |-> TRUE, pricesIsArray |-> FALSE, prices |-> <<>>,
      volumesIsArray |-> FALSE, volumes |-> <<>>],
     [threw |-> FALSE, pricesIsArray |-> FALSE, prices |-> <<>>,
      volumesIsArray |-> FALSE, volumes |-> <<>>]}
    \cup {[threw |-> FALSE, pricesIsArray |-> TRUE, prices |-> ps,
           volumesIsArray |-> TRUE, volumes |-> vs] :
            ps \in PriceSeries, vs \in VolumeSeries}

InitInd ==
    /\ pc = "getCoin"
    /\ now = StartTime
    /\ ticks = 0
    /\ venuePos = {}
    /\ tickPos = {}
    /\ outcome = "none"
    /\ TickReset
    /\ inFlight = {} /\ tickEnded = Null
    /\ spot = Null /\ chart = Null /\ derived = Null

\* await cg.get("/coins/bitcoin"): when the request throws or the snapshot
\* is not valid fetchBtcIndicators throws, and no chart is asked for
GetCoin ==
    /\ pc = "getCoin"
    /\ \E coin \in CoinAnswers :
          /\ spot' = Some(coin)
          /\ IF snapshotThrows(coin)
             THEN /\ derived' = Some(THREW)
                  /\ pc' = "fetched"
             ELSE /\ pc' = "getMarketChart"
                  /\ UNCHANGED derived
    /\ UNCHANGED <<now, ticks, venuePos, tickPos, parsed, pred, intent,
                   posResp, openPositions, exitDecision, balance, payload,
                   requests, apiResp, txSig, outcome, inFlight, tickEnded,
                   chart>>

\* await cg.get("/coins/bitcoin/market_chart"), then the rest of
\* fetchBtcIndicators
GetMarketChart ==
    /\ pc = "getMarketChart"
    /\ \E chartAns \in ChartAnswers :
          /\ chart' = Some(chartAns)
          /\ derived' = Some(fetchBtcIndicators(The(spot), chartAns))
    /\ pc' = "fetched"
    /\ UNCHANGED <<now, ticks, venuePos, tickPos, parsed, pred, intent,
                   posResp, openPositions, exitDecision, balance, payload,
                   requests, apiResp, txSig, outcome, inFlight, tickEnded,
                   spot>>

NextInd == GetCoin \/ GetMarketChart

SpecInd == InitInd /\ [][NextInd]_vars

(***************************************************************************)
(* The trend classification of the full path on its own: the comparison of *)
(* lines 166-172 on pairs of doubles (emaShort, emaLong), evaluated twice. *)
(* emaShort runs over the doubles next to the products emaLong * 1.002 and *)
(* emaLong * 0.998 that the comparison computes.                           *)
(***************************************************************************)
TrendMargin == 5

\* the double k steps of the last place of a away from a
stepsFrom(a, k) ==
    roundToDouble(a.neg,
                  IF k >= 0 THEN BAdd(a.m, NatOf(k)) ELSE BSub(a.m, NatOf(0 - k)),
                  a.e)

\* the doubles of the literals 1.002 and 0.998
TrendFactors == {DecimalOf(1002, 1000), DecimalOf(998, 1000)}

\* ten closes of 2555 followed by one of 2225
TrendCloses == [i \in 1..11 |-> IF i <= 10 THEN DoubleOf(2555) ELSE DoubleOf(2225)]

\* the long EMAs: the doubles 0.7, 2.7, 100 and 2500, and the long EMA that
\* computeEma gives for TrendCloses
TrendEmaLongs ==
    {DecimalOf(7, 10), DecimalOf(27, 10), DoubleOf(100), DoubleOf(2500),
     computeEma(TrendCloses, Min(50, Len(TrendCloses)))}

\* the short EMAs against emaLong: up to TrendMargin steps on either side of
\* each product
TrendEmaShorts(emaLong) ==
    {stepsFrom(DMul(emaLong, f), k) :
        f \in TrendFactors, k \in (0 - TrendMargin)..TrendMargin}

InitTrend ==
    /\ pc = "classify"
    /\ now = StartTime
    /\ ticks = 0
    /\ venuePos = {}
    /\ tickPos = {}
    /\ outcome = "none"
    /\ TickReset
    /\ inFlight = {} /\ tickEnded = Null
    /\ spot = Null /\ chart = Null
    /\ \E l \in TrendEmaLongs :
          derived \in {Some([path |-> "full",
                              emaShort |-> short,
                              emaLong |-> l,
                              trendDirection |-> "NONE", previous |-> "NONE"]) :
                          short \in TrendEmaShorts(l)}

\* one evaluation of the comparison; previous keeps the result before it
ClassifyTrend ==
    /\ pc \in {"classify", "classified"}
    /\ derived' = Some([The(derived) EXCEPT
                           !.previous = The(derived).trendDirection,
                           !.trendDirection =
                               trendOfEmas(The(derived).emaShort, The(derived).emaLong)])
    /\ pc' = IF pc = "classify" THEN "classified" ELSE "reclassified"
    /\ UNCHANGED <<now, ticks, venuePos, tickPos, parsed, pred, intent,
                   posResp, openPositions, exitDecision, balance, payload,
                   requests, apiResp, txSig, outcome, inFlight, tickEnded,
                   spot, chart>>

NextTrend == ClassifyTrend

SpecTrend == InitTrend /\ [][NextTrend]_vars

\* the double after a, one unit in the last place above it
NextUp(a) == roundToDouble(a.neg, BAdd(a.m, NatOf(1)), a.e)

\* the least and the greatest value of a non-empty array of doubles
minOf(values) ==
    values[CHOOSE i \in 1..Len(values) : \A j \in 1..Len(values) : ~DLess(values[j], values[i])]
maxOf(values) ==
    values[CHOOSE i \in 1..Len(values) : \A j \in 1..Len(values) : ~DLess(values[i], values[j])]

(***************************************************************************)
(* computeEma on its own: one call on every window of up to MaxWindow      *)
(* closes and every period of 1..MaxPeriod                                 *)
(***************************************************************************)
MaxWindow == 2
MaxPeriod == 10

\* closes of 3, of the next double above 3, and of 100
EmaCloses == {DoubleOf(3), NextUp(DoubleOf(3)), DoubleOf(100)}

EmaWindows == UNION {[1..n -> EmaCloses] : n \in 1..MaxWindow}

InitEma ==
    /\ pc = "computeEma"
    /\ now = StartTime
    /\ ticks = 0
    /\ venuePos = {}
    /\ tickPos = {}
    /\ outcome = "none"
    /\ TickReset
    /\ inFlight = {} /\ tickEnded = Null
    /\ spot = Null /\ chart = Null
    /\ derived \in {Some([path |-> "ema", values |-> w, period |-> p, ema |-> DZero]) :
                        w \in EmaWindows, p \in 1..MaxPeriod}

ComputeEma ==
    /\ pc = "computeEma"
    /\ derived' = Some([The(derived) EXCEPT
                           !.ema = computeEma(The(derived).values, The(derived).period)])
    /\ pc' = "computed"
    /\ UNCHANGED <<now, ticks, venuePos, tickPos, parsed, pred, intent,
                   posResp, openPositions, exitDecision, balance, payload,
                   requests, apiResp, txSig, outcome, inFlight, tickEnded,
                   spot, chart>>

NextEma == ComputeEma

SpecEma == InitEma /\ [][NextEma]_vars

(***************************************************************************)
(* computeStdDevPct on its own: one call on every window of up to          *)
(* MaxVolWindow closes, a negative and a zero close among them             *)
(***************************************************************************)
MaxVolWindow == 3

VolCloses == {DoubleOf(-100), DoubleOf(0), DoubleOf(100), DoubleOf(200)}

VolWindows == UNION {[1..n -> VolCloses] : n \in 0..MaxVolWindow}

InitVol ==
    /\ pc = "computeStdDevPct"
    /\ now = StartTime
    /\ ticks = 0
    /\ venuePos = {}
    /\ tickPos = {}
    /\ outcome = "none"
    /\ TickReset
    /\ inFlight = {} /\ tickEnded = Null
    /\ spot = Null /\ chart = Null
    /\ derived \in {Some([path |-> "volatility", values |-> w, returns |-> <<>>,
                           volatility24hPct |-> [root |-> TRUE, of |-> DoubleOf(0)]]) :
                        w \in VolWindows}

\* the call, with the returns array it built on the way
ComputeStdDevPct ==
    /\ pc = "computeStdDevPct"
    /\ derived' = Some([The(derived) EXCEPT
                           !.returns = IF Len(The(derived).values) < 2 THEN <<>>
                                       ELSE returnsOf(The(derived).values),
                           !.volatility24hPct =
                               [root |-> TRUE, of |-> computeStdDevPct(The(derived).values)]])
    /\ pc' = "computedStdDev"
    /\ UNCHANGED <<now, ticks, venuePos, tickPos, parsed, pred, intent,
                   posResp, openPositions, exitDecision, balance, payload,
                   requests, apiResp, txSig, outcome, inFlight, tickEnded,
                   spot, chart>>

NextVol == ComputeStdDevPct

SpecVol == InitVol /\ [][NextVol]_vars

(***************************************************************************)
(* The scheduler loop on its own: a tick is one await of                   *)
(* runSolPerpsBotOnce, which settles after some time by returning or by    *)
(* throwing.  The event loop runs every timer that is due and resumes      *)
(* every settled await, which is the weak fairness of NextLoop.            *)
(***************************************************************************)
\* how long a tick may run: no time, a second, a minute, two intervals
TickDurations == {0, 1000, 60 * 1000, 2 * INTERVAL_MS}

\* await runSolPerpsBotOnce() settles
RunSolPerpsBotOnce ==
    /\ pc = "readPrediction"
    /\ \E d \in TickDurations, how \in {"returned", "threw"} :
          /\ now' = now + d
          /\ EndTickAt(how, Null, now + d)
    /\ UNCHANGED <<ticks, venuePos, tickPos, parsed, pred, intent, posResp,
                   openPositions, exitDecision, balance, payload, requests,
                   apiResp>>
    /\ UNCHANGED indVars

InitLoop == Init /\ venuePos = {}

NextLoop ==
    \/ LoopTick
    \/ RunSolPerpsBotOnce
    \/ Sleep

SpecLoop == InitLoop /\ [][NextLoop]_vars /\ WF_vars(NextLoop)

(***************************************************************************)
(* The sizing policy on its own: buildAndSendPerpsTx from the balance      *)
(* query on, with no position open, for intents of any risk fraction       *)
(***************************************************************************)
\* riskFraction 0, 0.05, 0.1, 0.3, 0.5 and 1
SizingRiskFractions ==
    {[num |-> n, den |-> 20] : n \in {0, 1, 2, 6, 10, 20}}

SizingIntents ==
    [action : {"OPEN_LONG", "OPEN_SHORT"}, riskFraction : SizingRiskFractions]

InitSizing ==
    /\ pc = "getBalance"
    /\ now = StartTime
    /\ ticks = 1
    /\ venuePos = {}
    /\ tickPos = {}
    /\ outcome = "running"
    /\ parsed = Null /\ pred = Null
    /\ intent \in {Some(i) : i \in SizingIntents}
    /\ posResp = Some([threw |-> FALSE, status |-> HTTP_OK, body |-> "array"])
    /\ openPositions = Some(<<>>)
    /\ exitDecision = Null
    /\ balance = Null /\ payload = Null /\ requests = <<>>
    /\ apiResp = Null /\ txSig = Null
    /\ inFlight = {1} /\ tickEnded = Null
    /\ spot = Null /\ chart = Null /\ derived = Null

NextSizing ==
    \/ GetBalance
    \/ GetUsdcBalance

SpecSizing == InitSizing /\ [][NextSizing]_vars

(***************************************************************************)
(* buildAndSendPerpsTx on its own, called with every intent of the         *)
(* TradeIntent type while no position is open at the venue                 *)
(***************************************************************************)
BuildIntents == [action : Actions, riskFraction : {NO_RISK, RISK_FRACTION}]

InitBuild ==
    /\ pc = "buildTx"
    /\ now = StartTime
    /\ ticks = 1
    /\ venuePos = {}
    /\ tickPos = {}
    /\ outcome = "running"
    /\ parsed = Null /\ pred = Null
    /\ intent \in {Some(i) : i \in BuildIntents}
    /\ posResp = Null /\ openPositions = Null /\ exitDecision = Null
    /\ balance = Null /\ payload = Null /\ requests = <<>>
    /\ apiResp = Null /\ txSig = Null
    /\ inFlight = {1} /\ tickEnded = Null
    /\ spot = Null /\ chart = Null /\ derived = Null

\* the entry of buildAndSendPerpsTx: DO_NOTHING returns null, every other
\* action goes on to the positions query
BuildAndSendPerpsTx ==
    /\ pc = "buildTx"
    /\ IF The(intent).action = "DO_NOTHING"
       THEN EndTick("doNothing", Null)
       ELSE /\ pc' = "fetchPositions"
            /\ UNCHANGED <<outcome, txSig, inFlight, tickEnded>>
    /\ UNCHANGED <<now, ticks, venuePos, tickPos, parsed, pred, intent,
                   posResp, openPositions, exitDecision, balance, payload,
                   requests, apiResp>>
    /\ UNCHANGED indVars

NextBuild ==
    \/ BuildAndSendPerpsTx
    \/ FetchOpenPerpsPositions
    \/ GetBalance
    \/ GetUsdcBalance

SpecBuild == InitBuild /\ [][NextBuild]_vars

(***************************************************************************)
(* The intent mapper on its own: every forecast of MapInputs is mapped     *)
(***************************************************************************)
MapMargin == 10

MapConfidences ==
    (MIN_CONFIDENCE - MapMargin .. MIN_CONFIDENCE + MapMargin)
    \cup {-10, 0, 900, 1000, 1010}

MapInputs ==
    [direction : Directions \cup {"NEUTRAL"}, confidence : MapConfidences]

InitMap ==
    /\ pc = "map"
    /\ now = StartTime
    /\ ticks = 0
    /\ venuePos = Null
    /\ tickPos = Null
    /\ outcome = "none"
    /\ parsed = Null
    /\ pred \in {Some(p) : p \in MapInputs}
    /\ intent = Null
    /\ posResp = Null /\ openPositions = Null /\ exitDecision = Null
    /\ balance = Null /\ payload = Null /\ requests = <<>>
    /\ apiResp = Null /\ txSig = Null
    /\ IdleRest

MapPrediction ==
    /\ pc = "map"
    /\ intent' = Some(mapPredictionToTradeIntent(The(pred)))
    /\ pc' = "mapped"
    /\ UNCHANGED <<now, ticks, venuePos, tickPos, parsed, pred, posResp,
                   openPositions, exitDecision, balance, payload, requests,
                   apiResp, txSig, outcome, inFlight, tickEnded>>
    /\ UNCHANGED indVars

NextMap == MapPrediction

SpecMap == InitMap /\ [][NextMap]_vars

(***************************************************************************)
(* The exit decision on its own: every position, intent and age of the     *)
(* input sets is evaluated                                                 *)
(***************************************************************************)
Intents ==
    {[action |-> a,
      riskFraction |-> IF a \in {"OPEN_LONG", "OPEN_SHORT"} THEN RISK_FRACTION ELSE NO_RISK] :
        a \in Actions}

ExitPositions ==
    [side : {"long", "short"},
     entryPrice : {Null, Some(0), Some(100000), Some(100200)},
     markPrice : {Null, Some(0), Some(96400), Some(96500), Some(96600),
                  Some(96693), Some(100000), Some(103400), Some(103500),
                  Some(103600), Some(103707)},
     createdAtMs : {Null, Some(StartTime - MAX_POSITION_AGE_MS - 1),
                    Some(StartTime - MAX_POSITION_AGE_MS),
                    Some(StartTime - MAX_POSITION_AGE_MS + 1)},
     sizeUsd : {Null}]

InitExit ==
    /\ pc = "exit"
    /\ now = StartTime
    /\ ticks = 0
    /\ venuePos \in {Some(p) : p \in ExitPositions}
    /\ tickPos = venuePos
    /\ outcome = "none"
    /\ parsed = Null /\ pred = Null
    /\ intent \in {Some(i) : i \in Intents}
    /\ posResp = Null /\ openPositions = Null /\ exitDecision = Null
    /\ balance = Null /\ payload = Null /\ requests = <<>>
    /\ apiResp = Null /\ txSig = Null
    /\ IdleRest

EvaluateExit ==
    /\ pc = "exit"
    /\ exitDecision' =
          Some(evaluateExitDecision(The(normalizePerpsPosition(The(venuePos))),
                                    The(intent), now))
    /\ pc' = "exited"
    /\ UNCHANGED <<now, ticks, venuePos, tickPos, parsed, pred, intent,
                   posResp, openPositions, balance, payload, requests,
                   apiResp, txSig, outcome, inFlight, tickEnded>>
    /\ UNCHANGED indVars

NextExit == EvaluateExit

SpecExit == InitExit /\ [][NextExit]_vars

(***************************************************************************)
(* Claims                                                                  *)
(***************************************************************************)
OpenRequests == {i \in 1..Len(requests) : ~requests[i].reduceOnly}

\* the positions query of the tick failed or returned an error: it threw, or
\* the HTTP status is an error status, or the body is empty or an error body
QueryFailed ==
    /\ posResp # Null
    /\ \/ The(posResp).threw
       \/ The(posResp).status >= 400
       \/ The(posResp).body \in {"empty", "error"}
\* the venue answered the positions query of the tick with its list
QueryAnswered == posResp # Null /\ ~QueryFailed
CloseRequests == {i \in 1..Len(requests) : requests[i].reduceOnly}

\* the unrealized move of a position, as the spec states it, against a
\* threshold of n thousandths: (mark - entry) / entry for a long,
\* (entry - mark) / entry for a short
SpecMove(pos) ==
    IF pos.side = "long"
    THEN The(pos.markPrice) - The(pos.entryPrice)
    ELSE The(pos.entryPrice) - The(pos.markPrice)
MoveAtLeast(pos, n) == SpecMove(pos) * 1000 >= n * The(pos.entryPrice)
MoveAtMost(pos, n) == SpecMove(pos) * 1000 <= n * The(pos.entryPrice)
PricesKnown(pos) ==
    /\ pos.entryPrice # Null /\ pos.markPrice # Null
    /\ The(pos.entryPrice) > 0 /\ The(pos.markPrice) > 0
IntentFlips(pos, int) ==
    \/ pos.side = "long" /\ int.action = "OPEN_SHORT"
    \/ pos.side = "short" /\ int.action = "OPEN_LONG"
AgeAtLeast24h(pos, t) ==
    pos.createdAtMs # Null /\ t - The(pos.createdAtMs) >= 24 * 60 * 60 * 1000

\* the exit triggers of the spec: flip, take-profit, stop-loss, max age
SomeTriggerFires(pos, int, t) ==
    \/ IntentFlips(pos, int)
    \/ pos.entryPrice # Null /\ pos.markPrice # Null /\ MoveAtLeast(pos, 35)
    \/ pos.entryPrice # Null /\ pos.markPrice # Null /\ MoveAtMost(pos, -35)
    \/ AgeAtLeast24h(pos, t)

\* C1: in a tick whose positions query reported at least one open position,
\* no open (increase) request is issued.
C1_NoOpenWhilePositionOpen ==
    (openPositions # Null /\ Len(The(openPositions)) > 0) => OpenRequests = {}

\* a tick that found a position it holds, with an open intent, ended
C1_Witness ==
    /\ pc = "sleep" /\ QueryAnswered /\ Len(The(openPositions)) > 0
    /\ The(intent).action = "OPEN_LONG"
    /\ outcome = "hold"
    /\ requests = <<>>

\* C2: a tick submits at most one order request to the venue, whatever the
\* venue and the RPC answer.
C2_AtMostOneRequest == Len(requests) <= 1

\* a close was submitted, the venue answered with an error, and the tick
\* ended with that single request
C2_Witness ==
    /\ pc = "sleep" /\ outcome = "apiError"
    /\ Len(requests) = 1 /\ requests[1].reduceOnly

\* C3 (as claimed): when a tick with a DO_NOTHING intent ends while the
\* position open at the venue has known prices and a move <= -3.5% or
\* >= +3.5%, the tick has decided to close.
C3_ExitsEvaluatedWhateverIntent ==
    (/\ pc = "sleep" /\ intent # Null
     /\ The(intent).action = "DO_NOTHING"
     /\ \E p \in tickPos :
           PricesKnown(p) /\ (MoveAtMost(p, -35) \/ MoveAtLeast(p, 35)))
    => (exitDecision # Null /\ The(exitDecision).shouldClose)

\* C4: whenever the intent requests the side opposite to the position, the
\* decision is to close with the signal-flip reason, also when take-profit,
\* stop-loss or max age holds too.
C4_FlipTakesPrecedence ==
    (exitDecision # Null /\ IntentFlips(The(tickPos), The(intent)))
    => The(exitDecision) = [shouldClose |-> TRUE, reason |-> "Signal flipped direction"]

\* a long with entry 100 and mark 103.6 (+3.6%), 24h old, and OPEN_SHORT
C4_Witness ==
    /\ pc = "exited"
    /\ The(tickPos).side = "long"
    /\ The(tickPos).entryPrice = Some(100000) /\ The(tickPos).markPrice = Some(103600)
    /\ AgeAtLeast24h(The(tickPos), now)
    /\ The(intent).action = "OPEN_SHORT"
    /\ The(exitDecision).reason = "Signal flipped direction"

\* C5 (as claimed): for known (positive) entry and mark prices, as the venue
\* reports them, and an intent that is not a flip, the decision is
\* take-profit exactly when the move is >= +3.5% and stop-loss exactly when
\* it is <= -3.5%, and both close.
C5_ThresholdsInclusive ==
    (/\ exitDecision # Null
     /\ PricesKnown(The(tickPos))
     /\ ~IntentFlips(The(tickPos), The(intent)))
    => /\ The(exitDecision).reason = "Take profit triggered"
            <=> MoveAtLeast(The(tickPos), 35)
       /\ The(exitDecision).reason = "Stop loss triggered"
            <=> MoveAtMost(The(tickPos), -35)
       /\ The(exitDecision).reason \in {"Take profit triggered", "Stop loss triggered"}
            => The(exitDecision).shouldClose

\* C6 (as claimed): a tick that read its forecast and ended while the
\* position open at the venue, of known opened-at time, is 24h old or more,
\* has decided to close it.
C6_MaxAgeNeverHeld ==
    (/\ pc = "sleep" /\ intent # Null
     /\ ~QueryFailed /\ outcome \notin {"threw", "unnormalized"}
     /\ \E p \in tickPos : AgeAtLeast24h(p, now))
    => (exitDecision # Null /\ The(exitDecision).shouldClose)

\* C7 (as claimed): whenever the exit decision of the tick is to close, the
\* tick has emitted a close request for the position's side.
C7_TriggerEmitsClose ==
    (exitDecision # Null /\ The(exitDecision).shouldClose)
    => \E i \in CloseRequests : \E p \in tickPos : requests[i].side = p.side

\* C8 (as claimed): in every tick during which a position is open and no
\* exit trigger fires, no request is emitted, whatever the intent and
\* however many ticks came before.
C8_HoldEmitsNothing ==
    (/\ intent # Null /\ tickPos # {}
     /\ \A p \in tickPos : ~SomeTriggerFires(p, The(intent), now))
    => requests = <<>>

\* C9 (as claimed): a tick whose positions query failed or returned an
\* error issues no open request.
C9_NoOpenWhenQueryFails == QueryFailed => OpenRequests = {}

\* C10: a forecast of direction LONG or SHORT maps to DO_NOTHING with risk 0
\* below confidence 55, and to OPEN_LONG / OPEN_SHORT with risk 0.3 from 55.
C10_MapperThreshold ==
    (pc = "mapped" /\ The(pred).direction \in {"LONG", "SHORT"})
    => LET p == The(pred)
           i == The(intent)
       IN  /\ p.confidence < 55 * 10
                => i.action = "DO_NOTHING" /\ i.riskFraction.num = 0
           /\ p.confidence >= 55 * 10
                => /\ i.action = (IF p.direction = "LONG" THEN "OPEN_LONG" ELSE "OPEN_SHORT")
                   /\ i.riskFraction.num * 10 = 3 * i.riskFraction.den

\* confidence 55 itself, LONG, opens
C10_Witness ==
    /\ pc = "mapped"
    /\ The(pred) = [direction |-> "LONG", confidence |-> 550]
    /\ The(intent).action = "OPEN_LONG"

\* C11: a forecast whose direction is neither LONG nor SHORT maps to
\* DO_NOTHING with risk fraction 0, whatever its confidence.
C11_UnknownDirectionFailsClosed ==
    (pc = "mapped" /\ The(pred).direction \notin {"LONG", "SHORT"})
    => /\ The(intent).action = "DO_NOTHING"
       /\ The(intent).riskFraction.num = 0

\* direction NEUTRAL at confidence 90 is mapped to DO_NOTHING
C11_Witness ==
    /\ pc = "mapped"
    /\ The(pred) = [direction |-> "NEUTRAL", confidence |-> 900]
    /\ The(intent).action = "DO_NOTHING"

\* C12 (as claimed): a forecast whose confidence lies outside [0, 100] is
\* rejected by the input validation: the tick throws on reading it, before
\* any venue query, and issues no request.
C12_OutOfRangeConfidenceRejected ==
    (/\ parsed # Null
     /\ The(parsed).isObject /\ The(parsed).confidenceType = "number"
     /\ (The(parsed).confidence < 0 \/ The(parsed).confidence > 100 * 10))
    => (pc = "sleep" /\ outcome = "threw" /\ posResp = Null /\ requests = <<>>)

\* the forecast record as the spec requires it: every field present and of
\* its type, the direction one of LONG and SHORT
WellFormedForecast(f) ==
    /\ f.isObject
    /\ f.timestampType = "string"
    /\ f.direction \in {"LONG", "SHORT"}
    /\ f.confidenceType = "number"
    /\ f.targetPriceType = "number"
    /\ f.reasoningType = "string"

\* C13: a tick that read a forecast record with a field missing or of the
\* wrong type has thrown on reading it: it sent no positions query and no
\* open or close request.
C13_MalformedForecastAbortsTick ==
    (parsed # Null /\ ~WellFormedForecast(The(parsed)))
    => (pc = "sleep" /\ outcome = "threw" /\ posResp = Null /\ requests = <<>>)

\* a record whose targetPrice is a string made the tick throw
C13_Witness ==
    /\ pc = "sleep" /\ outcome = "threw"
    /\ parsed # Null /\ The(parsed).targetPriceType = "string"
    /\ posResp = Null /\ requests = <<>>

\* the balance of the collateral asset in micro-USD, one SOL being valued at
\* the 100 USD the code assumes: lamports for a long, USDC units for a short
CollateralUsd(side, amount) == IF side = "long" THEN amount \div 10 ELSE amount
\* the sizing policy has read the collateral balance and decided
SizingDecided ==
    pc = "apiPost" \/ outcome \in {"lowCollateral", "belowMinNotional"}
AvailableCollateralUsd == CollateralUsd(intentSide(The(intent)), The(balance))

\* C14: when the available collateral is below 10 USD no open request is
\* emitted, for either side and every risk fraction.
C14_UnderCollateralisedRejected ==
    (SizingDecided /\ AvailableCollateralUsd < 10 * 1000000)
    => (OpenRequests = {} /\ outcome = "lowCollateral")

\* a short at risk fraction 0.3 with 5 USDC is rejected
C14_Witness ==
    /\ pc = "sleep" /\ outcome = "lowCollateral"
    /\ The(intent).action = "OPEN_SHORT" /\ The(intent).riskFraction.num * 10 = 3 * The(intent).riskFraction.den
    /\ balance = Some(5 * 1000000)
    /\ requests = <<>>

\* C15: once the collateral check has passed, the target notional is
\* min(available collateral * riskFraction, 10 USD), and an open request is
\* emitted exactly when that target is at least 1 USD.
C15_TargetNotional ==
    (SizingDecided /\ AvailableCollateralUsd >= 10 * 1000000)
    => LET rf == The(intent).riskFraction
           \* min(available * rf, 10 USD), times rf.den
           target == Min(AvailableCollateralUsd * rf.num, 10 * 1000000 * rf.den)
       IN  /\ targetUsd(AvailableCollateralUsd, The(intent)) * rf.den = target
           /\ target < 1 * 1000000 * rf.den <=> OpenRequests = {}
           /\ target < 1 * 1000000 * rf.den <=> outcome = "belowMinNotional"

\* 10 USDC at risk fraction 0.05: the target of 0.5 USD is rejected
C15_Witness ==
    /\ pc = "sleep" /\ outcome = "belowMinNotional"
    /\ The(intent).action = "OPEN_SHORT" /\ The(intent).riskFraction.num = 1
    /\ balance = Some(10 * 1000000)
    /\ requests = <<>>

\* C16: every open request asks for a notional strictly above 1.1 times its
\* collateral.
C16_LeverageAboveMinimum ==
    \A i \in OpenRequests :
        requests[i].sizeUsdDelta * 10
            > 11 * CollateralUsd(requests[i].side, requests[i].collateralTokenDelta)

\* a long opened from 0.2 SOL at risk fraction 1: the target of 10 USD is
\* raised above the 10 USD of collateral
C16_Witness ==
    /\ pc = "apiPost" /\ OpenRequests # {}
    /\ The(intent).action = "OPEN_LONG" /\ The(intent).riskFraction.num = 20
    /\ balance = Some(200000000)
    /\ requests[1].sizeUsdDelta > requests[1].collateralTokenDelta \div 10

\* C17: a tick that throws leaves the loop at its sleep; every sleep ends
\* and, while the model's bound on the ticks is not reached, the next tick
\* starts; so every number of ticks up to the bound is eventually started.
C17_LoopKeepsTicking ==
    /\ [](outcome = "threw" => pc = "sleep")
    /\ (pc = "sleep") ~> (pc = "loop")
    /\ (pc = "loop" /\ ticks < MaxTicks) ~> (pc = "readPrediction")
    /\ <>(ticks = MaxTicks)

\* the second tick threw after two intervals and the loop is at its sleep
C17_Witness ==
    /\ pc = "sleep" /\ outcome = "threw" /\ ticks = 2
    /\ tickEnded = Some(now) /\ now >= StartTime + 3 * INTERVAL_MS

\* C18: at most one tick is in flight at any time, and a tick starts only
\* when no tick is in flight and at least the interval has passed since the
\* previous tick settled, however long that tick ran.
C18_TicksNeverOverlap ==
    /\ [](Cardinality(inFlight) <= 1)
    /\ [][ticks' # ticks =>
            /\ inFlight = {}
            /\ tickEnded # Null => now' >= The(tickEnded) + 10 * 60 * 1000]_vars

\* the second tick is in flight alone; the first ran for two intervals
C18_Witness ==
    /\ pc = "readPrediction" /\ ticks = 2 /\ inFlight = {2}
    /\ tickEnded = Some(StartTime + 2 * INTERVAL_MS)
    /\ now = StartTime + 3 * INTERVAL_MS

\* C19: buildAndSendPerpsTx returns a non-null result only for a request
\* whose transaction was built, sent and confirmed without error; a tick
\* that ended on an API error, a send failure, a confirmation error or a
\* confirmation timeout returned null.
C19_SuccessOnlyWhenConfirmed ==
    /\ txSig # Null
         => /\ outcome = "confirmed"
            /\ Len(requests) = 1
            /\ apiResp # Null
            /\ ~The(apiResp).error /\ The(apiResp).serializedTxBase64
    /\ outcome \in {"apiThrew", "apiError", "rpcError", "sendFailed",
                     "confirmError", "confirmTimeout"}
         => txSig = Null

\* an open was confirmed and its result is the position key of the answer
C19_Witness ==
    /\ pc = "sleep" /\ outcome = "confirmed"
    /\ Len(requests) = 1 /\ ~requests[1].reduceOnly
    /\ txSig = Some("pk")

\* a point of the price series that carries a finite number: a pair whose
\* second element is a number, or text that reads as one
CarriesFiniteNumber(p) == p.isArray /\ p.value.kind \in {"number", "numericText"}
\* the price series the chart answer delivered (none when the fetch failed)
DeliveredSeries ==
    IF ~The(chart).threw /\ The(chart).pricesIsArray THEN The(chart).prices ELSE <<>>
FinitePoints == Len(SelectSeq(DeliveredSeries, CarriesFiniteNumber))
\* the spot snapshot is valid: market_data with price, 24h change and volume
SnapshotValid ==
    /\ ~The(spot).threw /\ The(spot).hasMarketData
    /\ \A raw \in {The(spot).market.price, The(spot).market.change24hPct,
                   The(spot).market.volume24h} :
          raw.kind \in {"number", "numericText"}

\* C20 (as claimed): for a valid snapshot and a price series with fewer than
\* 10 finite points, fetchBtcIndicators returns, with emaShort and emaLong
\* equal to the snapshot price and no volume trend.
C20_ShortSeriesDegrades ==
    (pc = "fetched" /\ SnapshotValid /\ FinitePoints < 10)
    => /\ The(derived).path # "threw"
       /\ The(derived).emaShort = The(spot).market.price.v
       /\ The(derived).emaLong = The(spot).market.price.v
       /\ The(derived).volumeTrend24hPct = Null

\* the chart request failed, or its answer has no prices array
ChartAbsent == The(chart).threw \/ ~The(chart).pricesIsArray

\* C21: whenever the spot snapshot is valid, fetchBtcIndicators returns an
\* indicator bundle whatever the chart request did, and when the chart
\* request failed or delivered no price series the bundle is the degraded
\* one, computed from the snapshot.
C21_ChartFailureDegrades ==
    (pc = "fetched" /\ SnapshotValid)
    => /\ The(derived).path \in {"full", "degraded"}
       /\ ChartAbsent => The(derived) = degradedIndicators(The(spotOf(The(spot).market)))

\* the chart request threw and the bundle came from the snapshot
C21_Witness ==
    /\ pc = "fetched" /\ SnapshotValid /\ The(chart).threw
    /\ The(derived).path = "degraded"
    /\ The(derived).emaShort = DoubleOf(100)

\* the value of the double a times the natural k < LIMB, not rounded
Scaled(a, k) == [neg |-> a.neg, m |-> BMulSmall(a.m, k), e |-> a.e]

\* a < b for two values m * 2^e whose m is of any length, compared exactly
ExactLess(a, b) ==
    LET lo == Min(a.e, b.e)
        x == BShl(a.m, a.e - lo)
        y == BShl(b.m, b.e - lo)
    IN  IF a.neg /\ ~b.neg THEN TRUE
        ELSE IF ~a.neg /\ b.neg THEN FALSE
        ELSE IF a.neg THEN BLess(y, x)
        ELSE BLess(x, y)

\* C22 (as claimed): the trend of a pair of EMAs is UP exactly when emaShort
\* is above emaLong * 1.002, DOWN exactly when it is below emaLong * 0.998
\* and RANGE otherwise, a value on either bound included, and a second
\* evaluation of the same pair gives the direction of the first.  The bounds
\* are taken on the values the two doubles have: emaShort * 1000 against
\* emaLong * 1002 and emaLong * 998, without rounding.
C22_TrendIsFunctionOfEmas ==
    (pc \in {"classified", "reclassified"})
    => LET above == ExactLess(Scaled(The(derived).emaLong, 1002),
                              Scaled(The(derived).emaShort, 1000))
           below == ExactLess(Scaled(The(derived).emaShort, 1000),
                              Scaled(The(derived).emaLong, 998))
           dir == The(derived).trendDirection
       IN  /\ dir = "UP" <=> above
           /\ dir = "DOWN" <=> below
           /\ dir = "RANGE" <=> (~above /\ ~below)
           /\ pc = "reclassified" => The(derived).previous = dir

\* C23: with the entry or the mark price unknown the decision is never
\* take-profit or stop-loss, while a flip still closes as a flip and, without
\* a flip, the position closes for max age exactly when it is 24h old; with
\* the opened-at time unknown the decision is never max age, while a flip
\* still closes as a flip and, without one, known prices still give
\* take-profit for a move above +3.5%, stop-loss for a move below -3.5%, and
\* neither for a move between the two.
C23_UnknownInputsSkipTheirTriggers ==
    (exitDecision # Null)
    => LET pos == The(tickPos)
           flips == IntentFlips(pos, The(intent))
           reason == The(exitDecision).reason
       IN  /\ (pos.entryPrice = Null \/ pos.markPrice = Null)
               => /\ reason \notin {"Take profit triggered", "Stop loss triggered"}
                  /\ flips => reason = "Signal flipped direction"
                  /\ ~flips => (reason = "Max position age exceeded (24h)"
                                   <=> AgeAtLeast24h(pos, now))
                  /\ The(exitDecision).shouldClose <=> (flips \/ AgeAtLeast24h(pos, now))
           /\ pos.createdAtMs = Null
               => /\ reason # "Max position age exceeded (24h)"
                  /\ flips => reason = "Signal flipped direction"
                  /\ (~flips /\ PricesKnown(pos))
                       => /\ ~MoveAtMost(pos, 35) => reason = "Take profit triggered"
                          /\ ~MoveAtLeast(pos, -35) => reason = "Stop loss triggered"
                          /\ reason = "Take profit triggered" => MoveAtLeast(pos, 35)
                          /\ reason = "Stop loss triggered" => MoveAtMost(pos, -35)

\* a position with no entry price, 24h old, and a same-side intent, closed
\* for max age
C23_Witness ==
    /\ pc = "exited"
    /\ The(tickPos).entryPrice = Null /\ The(tickPos).markPrice = Some(103600)
    /\ AgeAtLeast24h(The(tickPos), now)
    /\ ~IntentFlips(The(tickPos), The(intent))
    /\ The(exitDecision) = [shouldClose |-> TRUE, reason |-> "Max position age exceeded (24h)"]

\* C24 (as claimed): the EMA of a non-empty window of closes, for a period
\* >= 1, is not below the least close of the window and not above the
\* greatest.
C24_EmaWithinWindow ==
    (pc = "computed")
    => /\ ~DLess(The(derived).ema, minOf(The(derived).values))
       /\ ~DLess(maxOf(The(derived).values), The(derived).ema)

\* the pairs of consecutive closes whose previous close is above zero
PairsWithPositivePrev(values) ==
    {i \in 1..(Len(values) - 1) : DLess(DZero, values[i])}

\* C25 (as claimed): the volatility computation returns a value, and the
\* returns it is taken over are those of the pairs whose previous close is
\* above zero: a pair with a zero or negative previous close contributes none.
C25_NonPositivePrevSkipped ==
    (pc = "computedStdDev")
    => /\ ~The(derived).volatility24hPct.of.neg
       /\ Len(The(derived).returns)
             = Cardinality(PairsWithPositivePrev(The(derived).values))

\* C26 (as claimed): with no position open, every open request comes from an
\* intent whose action is OPEN_LONG or OPEN_SHORT and has the side of that
\* action; DO_NOTHING and CLOSE_POSITION emit none.
C26_OpenOnlyForOpenIntents ==
    (openPositions = Some(<<>>))
    => \A i \in OpenRequests :
          \/ The(intent).action = "OPEN_LONG" /\ requests[i].side = "long"
          \/ The(intent).action = "OPEN_SHORT" /\ requests[i].side = "short"

\* C27: every open request asks for a notional of 13 USD (sizeUsdDelta
\* 13000000) on a collateral of 10 USD, whatever the balance and the risk
\* fraction of the intent.
C27_OpenRequestIsConstant ==
    \A i \in OpenRequests :
        /\ requests[i].sizeUsdDelta = 13000000
        /\ CollateralUsd(requests[i].side, requests[i].collateralTokenDelta)
              = 10 * 1000000

\* a short opened from 50 USDC at risk fraction 0.1: the target of 5 USD is
\* sent as 13 USD
C27_Witness ==
    /\ pc = "apiPost" /\ OpenRequests # {}
    /\ The(intent).action = "OPEN_SHORT" /\ The(intent).riskFraction.num = 2
    /\ balance = Some(50 * 1000000)
    /\ requests[1].sizeUsdDelta = 13000000
    /\ requests[1].collateralTokenDelta = 10 * 1000000

\* C28: no tick ends on the minimum-notional rejection; once a tick with no
\* position open has read a collateral balance of at least 10 USD, it
\* emits the open request.
C28_MinNotionalNeverRejects ==
    /\ outcome # "belowMinNotional"
    /\ (/\ openPositions = Some(<<>>) /\ balance # Null /\ SizingDecided
        /\ AvailableCollateralUsd >= 10 * 1000000)
       => OpenRequests # {}

\* a long at risk fraction 0.3 from exactly 0.1 SOL (10 USD): the target of
\* 3 USD passes the minimum notional
C28_Witness ==
    /\ pc = "apiPost" /\ OpenRequests # {}
    /\ The(intent) = [action |-> "OPEN_LONG", riskFraction |-> [num |-> 3, den |-> 10]]
    /\ balance = Some(100000000)

\* C29 (as claimed): a tick whose order was confirmed on-chain without error
\* has a non-null result, for an open and for a close.
C29_ConfirmedIsReportedSent ==
    (pc = "sleep" /\ outcome = "confirmed") => txSig # Null

====
